---- MODULE Spec2Model ----
(***************************************************************************)
(* State-machine model of the Tetris engine of tetris.py: Tetromino,       *)
(* Board and TetrisGame, and the key dispatch of TetrisUI.handle_input.    *)
(* Python indices are 0-based; sequences here are 1-based, so the grid     *)
(* cell at column x, row y is grid[y + 1][x + 1].  Times are in hundredths *)
(* of a second (drop_interval 1.0 is 100).                                 *)
(***************************************************************************)
EXTENDS Integers, Sequences, FiniteSets, TLC

\* Board.__init__ defaults, used by TetrisGame through Board().
W == 10
H == 20

\* Tetromino.__init__ : every new piece starts at column 4, row 0.
SpawnX == 4
SpawnY == 0

\* TetrisGame scoring constants.
LINE_CLEAR_SCORES == <<0, 40, 100, 300, 1200>>
HARD_DROP_POINTS == 2
MaxLevel == 20
MinInterval == 5
BaseInterval == 100
IntervalStep == 5
LinesPerLevel == 10

\* Bounds of the exploration.
MaxSteps == 3
MaxTime == 200
MaxScore == 200000
MaxIds == 3
BoardW == 3
BoardH == 2
MaxRotations == 4
MaxClock == 3000

\* Elapsed times a reading of time.time() may show since last_drop_time.
Elapsed == {50, 100}

Kinds == {"I", "O", "T", "S", "Z", "J", "L"}

\* The kinds random.choice returns in the exploration of the game.
Draws == {"I", "O"}

Empty == "."

\* Tetromino.SHAPES, one definition per kind: frames of rows of cells.
ShapeI ==
    <<
       <<<<".",".",".",".">>, <<"I","I","I","I">>, <<".",".",".",".">>, <<".",".",".",".">>>>,
       <<<<".",".","I",".">>, <<".",".","I",".">>, <<".",".","I",".">>, <<".",".","I",".">>>>,
       <<<<".",".",".",".">>, <<".",".",".",".">>, <<"I","I","I","I">>, <<".",".",".",".">>>>,
       <<<<".","I",".",".">>, <<".","I",".",".">>, <<".","I",".",".">>, <<".","I",".",".">>>>
    >>

ShapeO ==
    <<
       <<<<"O","O">>, <<"O","O">>>>
    >>

ShapeT ==
    <<
       <<<<".","T",".">>, <<"T","T","T">>, <<".",".",".">>>>,
       <<<<".","T",".">>, <<".","T","T">>, <<".","T",".">>>>,
       <<<<".",".",".">>, <<"T","T","T">>, <<".","T",".">>>>,
       <<<<".","T",".">>, <<"T","T",".">>, <<".","T",".">>>>
    >>

ShapeS ==
    <<
       <<<<".","S","S">>, <<"S","S",".">>, <<".",".",".">>>>,
       <<<<".","S",".">>, <<".","S","S">>, <<".",".","S">>>>
    >>

ShapeZ ==
    <<
       <<<<"Z","Z",".">>, <<".","Z","Z">>, <<".",".",".">>>>,
       <<<<".",".","Z">>, <<".","Z","Z">>, <<".","Z",".">>>>
    >>

ShapeJ ==
    <<
       <<<<"J",".",".">>, <<"J","J","J">>, <<".",".",".">>>>,
       <<<<".","J","J">>, <<".","J",".">>, <<".","J",".">>>>,
       <<<<".",".",".">>, <<"J","J","J">>, <<".",".","J">>>>,
       <<<<".","J",".">>, <<".","J",".">>, <<"J","J",".">>>>
    >>

ShapeL ==
    <<
       <<<<".",".","L">>, <<"L","L","L">>, <<".",".",".">>>>,
       <<<<".","L",".">>, <<".","L",".">>, <<".","L","L">>>>,
       <<<<".",".",".">>, <<"L","L","L">>, <<"L",".",".">>>>,
       <<<<"L","L",".">>, <<".","L",".">>, <<".","L",".">>>>
    >>

SHAPES ==
    [k \in Kinds |->
        CASE k = "I" -> ShapeI
          [] k = "O" -> ShapeO
          [] k = "T" -> ShapeT
          [] k = "S" -> ShapeS
          [] k = "Z" -> ShapeZ
          [] k = "J" -> ShapeJ
          [] k = "L" -> ShapeL]

\* None, for current_piece / next_piece before the first spawn.
None == [type |-> "None"]

\* The smallest object identity not held by a live piece.
FreshId(live) ==
    CHOOSE i \in 1..MaxIds : i \notin live /\ \A j \in 1..MaxIds : j \notin live => i <= j

\* Tetromino.__init__ : a new instance of the given kind.
Tetromino(shape_type, live) ==
    [type |-> shape_type, rotation |-> 0, x |-> SpawnX, y |-> SpawnY, id |-> FreshId(live)]

\* Tetromino.get_current_shape
GetCurrentShape(piece) ==
    SHAPES[piece.type][(piece.rotation % Len(SHAPES[piece.type])) + 1]

\* rotate advancing the rotation modulo 4 whatever the kind.
Rotate_Mod4(piece, live) ==
    [Tetromino(piece.type, live) EXCEPT
        !.rotation = (piece.rotation + 1) % 4,
        !.x = piece.x,
        !.y = piece.y]

\* rotate leaving the new piece where Tetromino.__init__ put it.
Rotate_AtSpawn(piece, live) ==
    [Tetromino(piece.type, live) EXCEPT
        !.rotation = (piece.rotation + 1) % Len(SHAPES[piece.type])]

\* Tetromino.rotate : a new instance, rotation advanced modulo the frame count.
Rotate(piece, live) ==
    [Tetromino(piece.type, live) EXCEPT
        !.rotation = (piece.rotation + 1) % Len(SHAPES[piece.type]),
        !.x = piece.x,
        !.y = piece.y]

\* A call of rotate: the receiver after the call, which the body never assigns
\* to, and the piece returned.
RotateCall(piece, live) == [self |-> piece, ret |-> Rotate(piece, live)]

\* The (col_idx, row_idx) pairs of the occupied cells of the current frame.
ShapeCells(piece) ==
    LET shape == GetCurrentShape(piece)
    IN  {c \in (0..(Len(shape[1]) - 1)) \X (0..(Len(shape) - 1)) :
            shape[c[2] + 1][c[1] + 1] # Empty}

\* Board.__init__ : the grid of an empty board.
EmptyRow(width) == [i \in 1..width |-> Empty]
EmptyGrid(width, height) == [j \in 1..height |-> EmptyRow(width)]

Width(grid) == Len(grid[1])
Height(grid) == Len(grid)

\* Board() : the grid of the default board, as TetrisGame creates it.
NewBoard == EmptyGrid(W, H)

\* is_valid_position leaving dx out of the column.
IsValidPosition_IgnoresDx(grid, piece, dx, dy) ==
    \A c \in ShapeCells(piece) :
        LET new_x == piece.x + c[1]
            new_y == piece.y + c[2] + dy
        IN  ~ (\/ new_x < 0
               \/ new_x >= Width(grid)
               \/ new_y >= Height(grid)
               \/ (new_y >= 0 /\ grid[new_y + 1][new_x + 1] # Empty))

\* is_valid_position without the test of the grid cell.
IsValidPosition_NoOverlap(grid, piece, dx, dy) ==
    \A c \in ShapeCells(piece) :
        LET new_x == piece.x + c[1] + dx
            new_y == piece.y + c[2] + dy
        IN  ~ (\/ new_x < 0
               \/ new_x >= Width(grid)
               \/ new_y >= Height(grid))

\* Board.is_valid_position
IsValidPosition(grid, piece, dx, dy) ==
    \A c \in ShapeCells(piece) :
        LET new_x == piece.x + c[1] + dx
            new_y == piece.y + c[2] + dy
        IN  ~ (\/ new_x < 0
               \/ new_x >= Width(grid)
               \/ new_y >= Height(grid)
               \/ (new_y >= 0 /\ grid[new_y + 1][new_x + 1] # Empty))

\* Python list indexing: a negative index counts from the end.
PyIndex(i, n) == IF i < 0 THEN i + n ELSE i

\* Board.place_piece : writes the kind tag of every occupied cell with y >= 0.
\* (A cell right of the columns or below the rows raises IndexError in the
\* code; the game only commits pieces that validate or sit at the spawn point.)
PlacePiece(grid, piece) ==
    LET shape == GetCurrentShape(piece)
        written == {c \in ShapeCells(piece) : piece.y + c[2] >= 0}
        rows == {PyIndex(piece.y + c[2], Height(grid)) : c \in written}
        hits(xx, yy) ==
            {c \in written :
                /\ PyIndex(piece.y + c[2], Height(grid)) = yy
                /\ PyIndex(piece.x + c[1], Width(grid)) = xx}
    IN  [j \in 1..Height(grid) |->
            IF j - 1 \in rows
            THEN [i \in 1..Width(grid) |->
                    IF hits(i - 1, j - 1) # {}
                    THEN LET c == CHOOSE c \in hits(i - 1, j - 1) : TRUE
                         IN  shape[c[2] + 1][c[1] + 1]
                    ELSE grid[j][i]]
            ELSE grid[j]]

\* '.' in row
HasEmpty(row) == \E i \in 1..Len(row) : row[i] = Empty

\* clear_lines keeping every row, full or not.
KeptRows_KeepsAll(rows) == rows

\* The rows kept by clear_lines, in order (new_grid before the padding).
RECURSIVE KeptRows(_)
KeptRows(rows) ==
    IF rows = <<>> THEN <<>>
    ELSE IF HasEmpty(Head(rows))
         THEN <<Head(rows)>> \o KeptRows(Tail(rows))
         ELSE KeptRows(Tail(rows))

\* The padding loop appending the empty rows at the bottom.
RECURSIVE PadTop_Appends(_, _, _)
PadTop_Appends(new_grid, width, height) ==
    IF Len(new_grid) < height
    THEN PadTop_Appends(new_grid \o <<EmptyRow(width)>>, width, height)
    ELSE new_grid

\* The padding loop of clear_lines: insert empty rows at the top up to height.
RECURSIVE PadTop(_, _, _)
PadTop(new_grid, width, height) ==
    IF Len(new_grid) < height
    THEN PadTop(<<EmptyRow(width)>> \o new_grid, width, height)
    ELSE new_grid

\* The counter of clear_lines: one per row without an empty cell.
RECURSIVE CountFull(_)
CountFull(rows) ==
    IF rows = <<>> THEN 0
    ELSE (IF HasEmpty(Head(rows)) THEN 0 ELSE 1) + CountFull(Tail(rows))

\* Board.clear_lines : the new grid and the number of lines cleared.
ClearLines(grid) ==
    [grid |-> PadTop(KeptRows(grid), Width(grid), Height(grid)),
     lines_cleared |-> CountFull(grid)]

\* Board.is_game_over
IsGameOver(grid) == \E i \in 1..Width(grid) : grid[1][i] # Empty

(***************************************************************************)
(* TetrisGame.  The operators below take the game object as a record g     *)
(* and return the game after the call (with the return value where the     *)
(* method has one); random.choice and time.time() are arguments.           *)
(***************************************************************************)

\* Identities of the pieces the game still references.
Live(cur, nxt) == {p.id : p \in {cur, nxt} \ {None}}

\* TetrisGame._calculate_score
CalculateScore(level, lines) ==
    IF lines < 0 \/ lines >= Len(LINE_CLEAR_SCORES)
    THEN 0
    ELSE LINE_CLEAR_SCORES[lines + 1] * (level + 1)

Min(a, b) == IF a < b THEN a ELSE b
Max(a, b) == IF a > b THEN a ELSE b

\* The level without its cap.
LevelFor_NoCap(lines) == (lines \div LinesPerLevel) + 1

\* lock_piece line 277: level from the cumulative line count.
LevelFor(lines) == Min(MaxLevel, (lines \div LinesPerLevel) + 1)

\* lock_piece line 278: drop interval from the level.
IntervalFor(level) == Max(MinInterval, BaseInterval - (level - 1) * IntervalStep)

\* spawn_new_piece assigning the outcome of the validation to game_over.
SpawnNewPiece_Assigns(g, k1, k2) ==
    LET nxt == IF g.next_piece = None
               THEN Tetromino(k1, Live(g.current_piece, None))
               ELSE g.next_piece
        cur == [nxt EXCEPT !.x = SpawnX, !.y = SpawnY]
        new == Tetromino(k2, {cur.id})
    IN  [g EXCEPT !.current_piece = cur,
                  !.next_piece = new,
                  !.game_over = ~ IsValidPosition(g.grid, cur, 0, 0)]

\* spawn_new_piece validating the piece it has just drawn, not the current one.
SpawnNewPiece_ChecksNext(g, k1, k2) ==
    LET nxt == IF g.next_piece = None
               THEN Tetromino(k1, Live(g.current_piece, None))
               ELSE g.next_piece
        cur == [nxt EXCEPT !.x = SpawnX, !.y = SpawnY]
        new == Tetromino(k2, {cur.id})
    IN  [g EXCEPT !.current_piece = cur,
                  !.next_piece = new,
                  !.game_over = IF ~ IsValidPosition(g.grid, new, 0, 0) THEN TRUE ELSE @]

\* TetrisGame.spawn_new_piece ; k1, k2 are the two random.choice results.
SpawnNewPiece(g, k1, k2) ==
    LET nxt == IF g.next_piece = None
               THEN Tetromino(k1, Live(g.current_piece, None))
               ELSE g.next_piece
        cur == [nxt EXCEPT !.x = SpawnX, !.y = SpawnY]
        new == Tetromino(k2, {cur.id})
    IN  [g EXCEPT !.current_piece = cur,
                  !.next_piece = new,
                  !.game_over = IF ~ IsValidPosition(g.grid, cur, 0, 0) THEN TRUE ELSE @]

\* move_piece adding dx to the column before it validates the move.
MovePiece_ShiftsFirst(g, dx, dy) ==
    IF g.current_piece = None
    THEN [g |-> g, ret |-> FALSE]
    ELSE IF IsValidPosition(g.grid, g.current_piece, dx, dy)
         THEN [g |-> [g EXCEPT !.current_piece.x = @ + dx, !.current_piece.y = @ + dy],
               ret |-> TRUE]
         ELSE [g |-> [g EXCEPT !.current_piece.x = @ + dx], ret |-> FALSE]

\* TetrisGame.move_piece
MovePiece(g, dx, dy) ==
    IF g.current_piece = None
    THEN [g |-> g, ret |-> FALSE]
    ELSE IF IsValidPosition(g.grid, g.current_piece, dx, dy)
         THEN [g |-> [g EXCEPT !.current_piece.x = @ + dx, !.current_piece.y = @ + dy],
               ret |-> TRUE]
         ELSE [g |-> g, ret |-> FALSE]

\* rotate_piece keeping the rotated piece whether or not it validates.
RotatePiece_KeepsCandidate(g) ==
    IF g.current_piece = None
    THEN [g |-> g, ret |-> FALSE]
    ELSE LET rotated == Rotate(g.current_piece, Live(g.current_piece, g.next_piece))
         IN  [g |-> [g EXCEPT !.current_piece = rotated],
              ret |-> IsValidPosition(g.grid, rotated, 0, 0)]

\* TetrisGame.rotate_piece
RotatePiece(g) ==
    IF g.current_piece = None
    THEN [g |-> g, ret |-> FALSE]
    ELSE LET rotated == Rotate(g.current_piece, Live(g.current_piece, g.next_piece))
         IN  IF IsValidPosition(g.grid, rotated, 0, 0)
             THEN [g |-> [g EXCEPT !.current_piece = rotated], ret |-> TRUE]
             ELSE [g |-> g, ret |-> FALSE]

\* lock_piece assigning the lines of this lock to the cumulative count.
LockPiece_AssignsLines(g, k) ==
    IF g.current_piece = None
    THEN g
    ELSE LET cleared == ClearLines(PlacePiece(g.grid, g.current_piece))
             lines == cleared.lines_cleared
             g1 == [g EXCEPT !.grid = cleared.grid]
             g2 == IF lines > 0
                   THEN [g1 EXCEPT
                           !.lines_cleared = lines,
                           !.score = @ + CalculateScore(g.level, lines),
                           !.level = LevelFor(lines),
                           !.drop_interval = IntervalFor(LevelFor(lines))]
                   ELSE g1
         IN  SpawnNewPiece(g2, k, k)

\* lock_piece scoring the lines at the level they lead to.
LockPiece_ScoresAtNewLevel(g, k) ==
    IF g.current_piece = None
    THEN g
    ELSE LET cleared == ClearLines(PlacePiece(g.grid, g.current_piece))
             lines == cleared.lines_cleared
             g1 == [g EXCEPT !.grid = cleared.grid]
             g2 == IF lines > 0
                   THEN [g1 EXCEPT
                           !.lines_cleared = @ + lines,
                           !.score = @ + CalculateScore(LevelFor(g.lines_cleared + lines), lines),
                           !.level = LevelFor(g.lines_cleared + lines),
                           !.drop_interval = IntervalFor(LevelFor(g.lines_cleared + lines))]
                   ELSE g1
         IN  SpawnNewPiece(g2, k, k)

\* lock_piece leaving out the spawn once the game is over.
LockPiece_StopsWhenOver(g, k) ==
    IF g.current_piece = None
    THEN g
    ELSE LET cleared == ClearLines(PlacePiece(g.grid, g.current_piece))
             lines == cleared.lines_cleared
             g1 == [g EXCEPT !.grid = cleared.grid]
             g2 == IF lines > 0
                   THEN [g1 EXCEPT
                           !.lines_cleared = @ + lines,
                           !.score = @ + CalculateScore(g.level, lines),
                           !.level = LevelFor(g.lines_cleared + lines),
                           !.drop_interval = IntervalFor(LevelFor(g.lines_cleared + lines))]
                   ELSE g1
         IN  IF g.game_over THEN g2 ELSE SpawnNewPiece(g2, k, k)

\* TetrisGame.lock_piece ; k is the kind drawn by the closing spawn.  The grid
\* after place_piece, the outcome of clear_lines and the game before the spawn
\* are each bound once, in the order the method computes them.
LockPiece(g, k) ==
    IF g.current_piece = None
    THEN g
    ELSE CHOOSE after \in
            {SpawnNewPiece(g2, k, k) :
                g2 \in {LET lines == cleared.lines_cleared
                            g1 == [g EXCEPT !.grid = cleared.grid]
                        IN  IF lines > 0
                            THEN [g1 EXCEPT
                                    !.lines_cleared = @ + lines,
                                    !.score = @ + CalculateScore(g.level, lines),
                                    !.level = LevelFor(g.lines_cleared + lines),
                                    !.drop_interval = IntervalFor(LevelFor(g.lines_cleared + lines))]
                            ELSE g1 :
                        cleared \in {ClearLines(placed) :
                                        placed \in {PlacePiece(g.grid, g.current_piece)}}}} : TRUE

\* The loop of hard_drop leaving after its first step down.
DropLoop_OneStep(g) ==
    LET m == MovePiece(g, 0, 1)
    IN  IF m.ret
        THEN [m.g EXCEPT !.score = @ + HARD_DROP_POINTS]
        ELSE g

\* The while loop of hard_drop: move down, two points a row, until it fails.
RECURSIVE DropLoop(_)
DropLoop(g) ==
    LET m == MovePiece(g, 0, 1)
    IN  IF m.ret
        THEN DropLoop([m.g EXCEPT !.score = @ + HARD_DROP_POINTS])
        ELSE g

\* TetrisGame.hard_drop
HardDrop(g, k) ==
    IF g.current_piece = None
    THEN g
    ELSE LockPiece(DropLoop(g), k)

\* update returning early when game over only, not when paused.
Update_IgnoresPause(g, current_time, k) ==
    IF g.game_over
    THEN g
    ELSE IF current_time - g.last_drop_time >= g.drop_interval
         THEN LET m == MovePiece(g, 0, 1)
                  g1 == IF ~ m.ret THEN LockPiece(g, k) ELSE m.g
              IN  [g1 EXCEPT !.last_drop_time = current_time]
         ELSE g

\* update taking the timestamp before it looks at the flags.
Update_StampsAlways(g, current_time, k) ==
    IF g.paused \/ g.game_over
    THEN [g EXCEPT !.last_drop_time = current_time]
    ELSE IF current_time - g.last_drop_time >= g.drop_interval
         THEN LET m == MovePiece(g, 0, 1)
                  g1 == IF ~ m.ret THEN LockPiece(g, k) ELSE m.g
              IN  [g1 EXCEPT !.last_drop_time = current_time]
         ELSE g

\* update resetting the timestamp only when the piece moved down.
Update_StampsOnMove(g, current_time, k) ==
    IF g.paused \/ g.game_over
    THEN g
    ELSE IF current_time - g.last_drop_time >= g.drop_interval
         THEN LET m == MovePiece(g, 0, 1)
              IN  IF ~ m.ret
                  THEN LockPiece(g, k)
                  ELSE [m.g EXCEPT !.last_drop_time = current_time]
         ELSE g

\* update that never locks: a piece that cannot go down stays current.
Update_NeverLocks(g, current_time, k) ==
    IF g.paused \/ g.game_over
    THEN g
    ELSE IF current_time - g.last_drop_time >= g.drop_interval
         THEN LET m == MovePiece(g, 0, 1)
              IN  [m.g EXCEPT !.last_drop_time = current_time]
         ELSE g

\* TetrisGame.update ; current_time is the reading of time.time().
Update(g, current_time, k) ==
    IF g.paused \/ g.game_over
    THEN g
    ELSE IF current_time - g.last_drop_time >= g.drop_interval
         THEN LET m == MovePiece(g, 0, 1)
                  g1 == IF ~ m.ret THEN LockPiece(g, k) ELSE m.g
              IN  [g1 EXCEPT !.last_drop_time = current_time]
         ELSE g

\* TetrisGame.toggle_pause
TogglePause(g) == [g EXCEPT !.paused = ~ @]

\* toggle_theme that only ever leaves green.
ToggleTheme_OneWay(g) == [g EXCEPT !.theme = IF @ = "green" THEN "amber" ELSE @]

\* TetrisGame.toggle_theme
ToggleTheme(g) == [g EXCEPT !.theme = IF @ = "green" THEN "amber" ELSE "green"]

\* The assignments shared by __init__ and restart, then the two spawns.
\* theme is set by __init__ only; restart keeps it.
FreshGame(theme, now, k1, k2, k3) ==
    LET g0 == [grid |-> NewBoard,
               current_piece |-> None,
               next_piece |-> None,
               score |-> 0,
               level |-> 1,
               lines_cleared |-> 0,
               paused |-> FALSE,
               game_over |-> FALSE,
               theme |-> theme,
               last_drop_time |-> now,
               drop_interval |-> BaseInterval]
    IN  SpawnNewPiece(SpawnNewPiece(g0, k1, k2), k3, k3)

\* TetrisGame.__init__
NewGame(now, k1, k2, k3) == FreshGame("green", now, k1, k2, k3)

\* restart without the reset of the score.
Restart_KeepsScore(g, now, k1, k2, k3) ==
    [FreshGame(g.theme, now, k1, k2, k3) EXCEPT !.score = g.score]

\* TetrisGame.restart
Restart(g, now, k1, k2, k3) == FreshGame(g.theme, now, k1, k2, k3)

\* The keys TetrisUI.handle_input distinguishes (upper and lower case alike).
Keys == {"q", "p", "r", "t", "LEFT", "RIGHT", "DOWN", "UP", "SPACE", "other"}

\* handle_input holding the piece keys back while paused only.
HandleInput_PausedOnly(g, key, now, k1, k2, k3) ==
    IF key = "q" THEN [g |-> g, ret |-> FALSE]
    ELSE IF key = "p" THEN [g |-> TogglePause(g), ret |-> TRUE]
    ELSE IF key = "r" THEN [g |-> Restart(g, now, k1, k2, k3), ret |-> TRUE]
    ELSE IF key = "t" THEN [g |-> ToggleTheme(g), ret |-> TRUE]
    ELSE IF ~ g.paused
    THEN IF key = "LEFT" THEN [g |-> MovePiece(g, -1, 0).g, ret |-> TRUE]
         ELSE IF key = "RIGHT" THEN [g |-> MovePiece(g, 1, 0).g, ret |-> TRUE]
         ELSE IF key = "DOWN"
         THEN LET m == MovePiece(g, 0, 1)
              IN  [g |-> IF m.ret THEN [m.g EXCEPT !.score = @ + 1] ELSE m.g,
                   ret |-> TRUE]
         ELSE IF key = "UP" THEN [g |-> RotatePiece(g).g, ret |-> TRUE]
         ELSE IF key = "SPACE" THEN [g |-> HardDrop(g, k1), ret |-> TRUE]
         ELSE [g |-> g, ret |-> TRUE]
    ELSE [g |-> g, ret |-> TRUE]

\* TetrisUI.handle_input ; ret is the value returned to the run loop.
HandleInput(g, key, now, k1, k2, k3) ==
    IF key = "q" THEN [g |-> g, ret |-> FALSE]
    ELSE IF key = "p" THEN [g |-> TogglePause(g), ret |-> TRUE]
    ELSE IF key = "r" THEN [g |-> Restart(g, now, k1, k2, k3), ret |-> TRUE]
    ELSE IF key = "t" THEN [g |-> ToggleTheme(g), ret |-> TRUE]
    ELSE IF ~ g.paused /\ ~ g.game_over
    THEN IF key = "LEFT" THEN [g |-> MovePiece(g, -1, 0).g, ret |-> TRUE]
         ELSE IF key = "RIGHT" THEN [g |-> MovePiece(g, 1, 0).g, ret |-> TRUE]
         ELSE IF key = "DOWN"
         THEN LET m == MovePiece(g, 0, 1)
              IN  [g |-> IF m.ret THEN [m.g EXCEPT !.score = @ + 1] ELSE m.g,
                   ret |-> TRUE]
         ELSE IF key = "UP" THEN [g |-> RotatePiece(g).g, ret |-> TRUE]
         ELSE IF key = "SPACE" THEN [g |-> HardDrop(g, k1), ret |-> TRUE]
         ELSE [g |-> g, ret |-> TRUE]
    ELSE [g |-> g, ret |-> TRUE]

(***************************************************************************)
(* The state: the fields of the TetrisGame object (grid is board.grid),    *)
(* the last call made on it with its arguments and return value, and the   *)
(* number of calls made so far.                                            *)
(***************************************************************************)
VARIABLES grid, current_piece, next_piece, score, level, lines_cleared,
          paused, game_over, theme, last_drop_time, drop_interval,
          call, steps

vars == <<grid, current_piece, next_piece, score, level, lines_cleared,
          paused, game_over, theme, last_drop_time, drop_interval,
          call, steps>>

\* The game object as a record, for the operators above.
Game ==
    [grid |-> grid,
     current_piece |-> current_piece,
     next_piece |-> next_piece,
     score |-> score,
     level |-> level,
     lines_cleared |-> lines_cleared,
     paused |-> paused,
     game_over |-> game_over,
     theme |-> theme,
     last_drop_time |-> last_drop_time,
     drop_interval |-> drop_interval]

\* The state is the game object g.
Is(g) ==
    /\ grid = g.grid
    /\ current_piece = g.current_piece
    /\ next_piece = g.next_piece
    /\ score = g.score
    /\ level = g.level
    /\ lines_cleared = g.lines_cleared
    /\ paused = g.paused
    /\ game_over = g.game_over
    /\ theme = g.theme
    /\ last_drop_time = g.last_drop_time
    /\ drop_interval = g.drop_interval

\* The game object after a call becomes the next state.
Becomes(g) ==
    /\ grid' = g.grid
    /\ current_piece' = g.current_piece
    /\ next_piece' = g.next_piece
    /\ score' = g.score
    /\ level' = g.level
    /\ lines_cleared' = g.lines_cleared
    /\ paused' = g.paused
    /\ game_over' = g.game_over
    /\ theme' = g.theme
    /\ last_drop_time' = g.last_drop_time
    /\ drop_interval' = g.drop_interval

\* One more call: the exploration stops after MaxSteps calls, and the score
\* counter is capped.
Called(g, op, args, ret) ==
    /\ steps < MaxSteps
    /\ g.score <= MaxScore
    /\ Becomes(g)
    /\ call' = [op |-> op, args |-> args, ret |-> ret]
    /\ steps' = steps + 1

\* The readings time.time() may give now.
Readings == {last_drop_time + e : e \in Elapsed} \cap (0..MaxTime)

\* The (dx, dy) the callers of move_piece pass: left, right, down.
Moves == {<<-1, 0>>, <<1, 0>>, <<0, 1>>}

\* The state after construction: TetrisGame() at time 0.
InitFresh ==
    \E k1, k2, k3 \in Draws :
        /\ Is(NewGame(0, k1, k2, k3))
        /\ call = [op |-> "__init__", args |-> <<>>, ret |-> "None"]
        /\ steps = 0

(***************************************************************************)
(* States of longer games, each reached from TetrisGame() by the play      *)
(* described: every piece is rotated and moved at the top, falls by        *)
(* gravity ticks (no drop points) and is locked by the tick that cannot    *)
(* move it down.                                                           *)
(***************************************************************************)

\* A piece just spawned by a lock: identities alternate between 1 and 2.
Spawned(kind, id) == [type |-> kind, rotation |-> 0, x |-> SpawnX, y |-> SpawnY, id |-> id]

\* A game in play with the given board, pieces and counters.
InPlay(g, cur, nxt, sc, lines) ==
    [grid |-> g,
     current_piece |-> cur,
     next_piece |-> nxt,
     score |-> sc,
     level |-> LevelFor(lines),
     lines_cleared |-> lines,
     paused |-> FALSE,
     game_over |-> FALSE,
     theme |-> "green",
     last_drop_time |-> 0,
     drop_interval |-> IntervalFor(LevelFor(lines))]

\* Nine upright I pieces in columns 0..5 and 7..9: four rows, a well at column 6.
SeedWell ==
    InPlay([j \in 1..H |->
               IF j > H - 4
               THEN [i \in 1..W |-> IF i = 7 THEN Empty ELSE "I"]
               ELSE EmptyRow(W)],
           Spawned("I", 1), Spawned("T", 2), 0, 0)

\* Five upright I pieces in columns 4, 5, 7, 8, 9 and three flat ones in columns 0..3.
SeedTriple ==
    InPlay([j \in 1..H |->
               IF j > H - 3
               THEN [i \in 1..W |-> IF i = 7 THEN Empty ELSE "I"]
               ELSE IF j = H - 3
               THEN [i \in 1..W |-> IF i <= 4 \/ i = 7 THEN Empty ELSE "I"]
               ELSE EmptyRow(W)],
           Spawned("I", 2), Spawned("J", 1), 0, 0)

\* Nine O pieces locked where they spawned fell to: columns 4 and 5 up to row 2.
SeedTower ==
    InPlay([j \in 1..H |->
               IF j > 2
               THEN [i \in 1..W |-> IF i \in {5, 6} THEN "O" ELSE Empty]
               ELSE EmptyRow(W)],
           Spawned("O", 1), Spawned("S", 2), 0, 0)

\* Nine single lines cleared at level 1 (I, I, O in the bottom row, then I, I),
\* and two pieces into the tenth.
SeedNineLines ==
    InPlay([j \in 1..H |->
               IF j = H
               THEN [i \in 1..W |-> IF i <= 4 THEN "I" ELSE IF i >= 9 THEN "O" ELSE Empty]
               ELSE EmptyRow(W)],
           Spawned("I", 2), Spawned("Z", 1), 720, 9)

\* Ninety-nine double clears (four flat I and an O), five at each level 1..19
\* and four at level 20, then four flat I around columns 4 and 5.
SeedTopLevel ==
    InPlay([j \in 1..H |->
               IF j > H - 2
               THEN [i \in 1..W |-> IF i \in {5, 6} THEN Empty ELSE "I"]
               ELSE EmptyRow(W)],
           Spawned("O", 1), Spawned("L", 2), 112900, 198)

\* Four upright I pieces in column 7, and a fifth rotated and moved one column
\* right at the top, resting on them.
SeedColumn ==
    InPlay([j \in 1..H |->
               IF j > 4
               THEN [i \in 1..W |-> IF i = 8 THEN "I" ELSE Empty]
               ELSE EmptyRow(W)],
           [type |-> "I", rotation |-> 1, x |-> 5, y |-> 0, id |-> 3],
           Spawned("I", 1), 0, 0)

\* The first piece of a game, a T, after the eighteen gravity ticks that took it
\* to the floor.
SeedLanding ==
    InPlay(NewBoard,
           [type |-> "T", rotation |-> 0, x |-> 4, y |-> 18, id |-> 2],
           Spawned("L", 1), 0, 0)

Seeds ==
    {SeedWell, SeedTriple, SeedTower, SeedNineLines, SeedTopLevel, SeedColumn, SeedLanding}

\* A game in play: its last call was the gravity tick that locked a piece.
InitSeeds ==
    \E s \in Seeds :
        /\ Is(s)
        /\ call = [op |-> "update", args |-> <<0>>, ret |-> "None"]
        /\ steps = 0

Init == InitFresh \/ InitSeeds

\* game.move_piece(dx, dy)
DoMovePiece ==
    \E d \in Moves :
        LET m == MovePiece(Game, d[1], d[2])
        IN  Called(m.g, "move_piece", d, m.ret)

\* game.rotate_piece()
DoRotatePiece ==
    LET m == RotatePiece(Game)
    IN  Called(m.g, "rotate_piece", <<>>, m.ret)

\* game.hard_drop()
DoHardDrop ==
    \E k \in Draws : Called(HardDrop(Game, k), "hard_drop", <<>>, "None")

\* game.lock_piece()
DoLockPiece ==
    \E k \in Draws : Called(LockPiece(Game, k), "lock_piece", <<>>, "None")

\* game.update() at a reading of the clock
DoUpdate ==
    \E t \in Readings, k \in Draws :
        Called(Update(Game, t, k), "update", <<t>>, "None")

\* game.toggle_pause()
DoTogglePause == Called(TogglePause(Game), "toggle_pause", <<>>, "None")

\* game.toggle_theme()
DoToggleTheme == Called(ToggleTheme(Game), "toggle_theme", <<>>, "None")

\* game.restart() at a reading of the clock
DoRestart ==
    \E t \in Readings, k1, k2, k3 \in Draws :
        Called(Restart(Game, t, k1, k2, k3), "restart", <<t>>, "None")


(***************************************************************************)
(* The game driven as TetrisUI.run drives it: update, then handle_input.   *)
(***************************************************************************)

\* A kind for the random.choice arguments a call does not reach.
Undrawn == CHOOSE k \in Draws : TRUE

\* ui.handle_input() with the key getch returned
DoHandleInput ==
    \E key \in Keys :
        IF key = "r"
        THEN \E t \in Readings, k1, k2, k3 \in Draws :
                LET r == HandleInput(Game, key, t, k1, k2, k3)
                IN  Called(r.g, "handle_input", <<key>>, r.ret)
        ELSE IF key = "SPACE"
        THEN \E k \in Draws :
                LET r == HandleInput(Game, key, last_drop_time, k, k, k)
                IN  Called(r.g, "handle_input", <<key>>, r.ret)
        ELSE LET r == HandleInput(Game, key, last_drop_time, Undrawn, Undrawn, Undrawn)
             IN  Called(r.g, "handle_input", <<key>>, r.ret)

NextUI ==
    \/ DoUpdate
    \/ DoHandleInput

SpecUI == Init /\ [][NextUI]_vars

\* Every call on the game: the methods of TetrisGame and the key dispatch.
Next ==
    \/ DoMovePiece
    \/ DoRotatePiece
    \/ DoHardDrop
    \/ DoLockPiece
    \/ DoUpdate
    \/ DoTogglePause
    \/ DoToggleTheme
    \/ DoRestart
    \/ DoHandleInput

Spec == Init /\ [][Next]_vars

(***************************************************************************)
(* Gravity alone: a game in play that nobody touches.  TetrisUI.run calls  *)
(* update on every turn of its loop, getch returns no key, and the only    *)
(* calls that act are the updates made once the drop interval has elapsed. *)
(* The kind of every new piece is any of the seven.                        *)
(***************************************************************************)

\* Thirty-two upright I pieces in columns 0..5, 8 and 9, a flat I on columns
\* 0..3 and an O on columns 8 and 9: row 3 lacks columns 4..7 only.
SeedBrim ==
    InPlay([j \in 1..H |->
               IF j > 4 THEN [i \in 1..W |-> IF i \in {7, 8} THEN Empty ELSE "I"]
               ELSE IF j = 4
               THEN [i \in 1..W |-> IF i <= 4 THEN "I" ELSE IF i >= 9 THEN "O" ELSE Empty]
               ELSE IF j = 3
               THEN [i \in 1..W |-> IF i >= 9 THEN "O" ELSE Empty]
               ELSE EmptyRow(W)],
           Spawned("I", 2), Spawned("T", 1), 0, 0)

\* The games left to gravity: boards filled to near the top in the columns
\* where the pieces fall, the next piece of any kind.
GravityStarts ==
    {[s EXCEPT !.next_piece.type = k] : s \in {SeedBrim, SeedTower}, k \in Kinds}

InitGravity ==
    \E s \in GravityStarts :
        /\ Is(s)
        /\ call = [op |-> "update", args |-> <<0>>, ret |-> "None"]
        /\ steps = 0

\* The readings of time.time() at which the drop interval has elapsed.
DueReadings ==
    {last_drop_time + e : e \in {e \in Elapsed : e >= drop_interval}} \cap (0..MaxClock)

\* game.update() of a game in play, made when the drop interval has elapsed
DoTick ==
    /\ ~ paused
    /\ ~ game_over
    /\ \E t \in DueReadings, k \in Kinds :
           /\ \E after \in {Update(Game, t, k)} : Becomes(after)
           /\ call' = [op |-> "update", args |-> <<t>>, ret |-> "None"]
           /\ steps' = steps + 1

NextGravity == DoTick

\* The loop of TetrisUI.run never stops calling update, and the clock goes on.
SpecGravity == InitGravity /\ [][NextGravity]_vars /\ WF_vars(DoTick)

(***************************************************************************)
(* Board on its own: Board(BoardW, BoardH) with any grid contents, and     *)
(* its methods applied once to any piece.                                  *)
(***************************************************************************)

\* The contents a cell may have: empty, or some tag.
Cells == {Empty, "X"}

\* Every grid of the given size.
AllGrids(width, height) == [1..height -> [1..width -> Cells]]

\* The pieces handed to the board: every frame of every kind, around the board.
Pieces ==
    UNION {{[type |-> k, rotation |-> r, x |-> px, y |-> py, id |-> 1] :
               r \in 0..(Len(SHAPES[k]) - 1), px \in {-1, 0, 1}, py \in {-1, 0}} :
           k \in Kinds}

\* The offsets handed to is_valid_position: none, right, down.
Offsets == {<<0, 0>>, <<1, 0>>, <<0, 1>>}

InitBoard ==
    /\ grid \in AllGrids(BoardW, BoardH)
    /\ current_piece = None
    /\ next_piece = None
    /\ score = 0
    /\ level = 1
    /\ lines_cleared = 0
    /\ paused = FALSE
    /\ game_over = FALSE
    /\ theme = "green"
    /\ last_drop_time = 0
    /\ drop_interval = BaseInterval
    /\ call = [op |-> "Board", args |-> <<>>, ret |-> "None"]
    /\ steps = 0

\* A call on the board: the grid after it, the piece it was given.
BoardCalled(g, piece, op, args, ret) ==
    /\ steps = 0
    /\ grid' = g
    /\ current_piece' = piece
    /\ call' = [op |-> op, args |-> args, ret |-> ret]
    /\ steps' = steps + 1
    /\ UNCHANGED <<next_piece, score, level, lines_cleared, paused, game_over,
                   theme, last_drop_time, drop_interval>>

\* board.clear_lines()
DoClearLines ==
    LET c == ClearLines(grid)
    IN  BoardCalled(c.grid, current_piece, "clear_lines", <<grid>>, c.lines_cleared)

\* board.is_valid_position(piece, dx, dy)
DoIsValidPosition ==
    \E piece \in Pieces, d \in Offsets :
        BoardCalled(grid, piece, "is_valid_position", d,
                    IsValidPosition(grid, piece, d[1], d[2]))

NextBoard ==
    \/ DoClearLines
    \/ DoIsValidPosition

SpecBoard == InitBoard /\ [][NextBoard]_vars

(***************************************************************************)
(* Tetromino on its own: a piece of any kind, frame and position, and      *)
(* rotate called on it and then on each piece rotate returns.  next_piece  *)
(* is the piece in hand, current_piece the receiver of the last call as    *)
(* that call left it, and call.args the first piece and the calls so far.  *)
(***************************************************************************)

InitPiece ==
    /\ grid = NewBoard
    /\ current_piece = None
    /\ next_piece \in Pieces
    /\ score = 0
    /\ level = 1
    /\ lines_cleared = 0
    /\ paused = FALSE
    /\ game_over = FALSE
    /\ theme = "green"
    /\ last_drop_time = 0
    /\ drop_interval = BaseInterval
    /\ call = [op |-> "Tetromino", args |-> <<next_piece, 0>>, ret |-> "None"]
    /\ steps = 0

\* piece = piece.rotate()
DoRotate ==
    /\ steps < MaxRotations
    /\ LET c == RotateCall(next_piece, {next_piece.id, call.args[1].id})
       IN  /\ current_piece' = c.self
           /\ next_piece' = c.ret
           /\ call' = [op |-> "rotate", args |-> <<call.args[1], call.args[2] + 1>>,
                       ret |-> c.ret]
    /\ steps' = steps + 1
    /\ UNCHANGED <<grid, score, level, lines_cleared, paused, game_over,
                   theme, last_drop_time, drop_interval>>

NextPiece == DoRotate

SpecPiece == InitPiece /\ [][NextPiece]_vars

(***************************************************************************)
(* Properties.                                                             *)
(***************************************************************************)

\* The call c is a restart: game.restart(), or the restart key.
RestartCall(c) ==
    \/ c.op = "restart"
    \/ (c.op = "handle_input" /\ c.args = <<"r">>)

\* The call c locks the current piece whatever the state: lock_piece, hard_drop.
LockingCall(c) == c.op \in {"lock_piece", "hard_drop"}

\* Some occupied cell of the frame of piece lies on an occupied cell of g.
Overlaps(g, piece) ==
    \E r \in 1..Len(GetCurrentShape(piece)) :
        \E c \in 1..Len(GetCurrentShape(piece)[r]) :
            /\ GetCurrentShape(piece)[r][c] # Empty
            /\ g[piece.y + r][piece.x + c] # Empty

\* C1: once game_over is true it stays true across every call that is not a
\* restart (move, rotate, hard drop, lock, tick, toggles, keys); only a restart
\* takes it back to false.
C1_GameOverPermanent ==
    [][(game_over /\ ~ RestartCall(call')) => game_over']_vars

\* C1 witness: the game is over after a hard drop made while it was already
\* over, although the piece that hard drop spawned fits at the spawn point.
C1_Witness ==
    /\ game_over
    /\ call.op = "hard_drop"
    /\ steps = 3
    /\ IsValidPosition(grid, current_piece, 0, 0)

\* C2 as stated: paused and game_over are never both true.
C2_FlagsExclusive == ~ (paused /\ game_over)

\* C2 amended: driven through handle_input and update, the game only becomes
\* over from a state that is not paused, and that step leaves paused false.
C2_GameOverFromActive ==
    [][(~ game_over /\ game_over') => (~ paused /\ ~ paused')]_vars

\* C2 witness: a key or a tick has just ended a game that was not paused.
C2_Witness ==
    /\ game_over
    /\ ~ paused
    /\ steps = 1
    /\ call.op \in {"handle_input", "update"}

\* C3: the spawn that ends a lock makes the next piece current at column 4,
\* row 0, sets game_over to true when that piece lies on an occupied cell, and
\* leaves game_over as it was when it does not.
C3_SpawnSetsGameOver ==
    [][LockingCall(call') =>
        /\ current_piece'.type = next_piece.type
        /\ current_piece'.x = 4
        /\ current_piece'.y = 0
        /\ game_over' = (game_over \/ Overlaps(grid', current_piece'))]_vars

\* C3 witness: the first lock of a game spawned a piece onto occupied cells and
\* the game is over, the piece still at the spawn point.
C3_Witness ==
    /\ steps = 1
    /\ call.op = "lock_piece"
    /\ game_over
    /\ current_piece.x = 4 /\ current_piece.y = 0
    /\ Overlaps(grid, current_piece)

\* C4: after a restart, made in any state, the game is as TetrisGame() makes
\* it: an empty board of 20 rows of 10 cells, score 0, level 1, no lines, not
\* paused, not over, a drop interval of one second, the current piece at
\* column 4, row 0, and a next piece that is another instance.
C4_RestartIsFresh ==
    (call.op = "__init__" \/ RestartCall(call)) =>
        /\ Len(grid) = 20
        /\ \A j \in 1..20 : Len(grid[j]) = 10 /\ \A i \in 1..10 : grid[j][i] = "."
        /\ score = 0
        /\ level = 1
        /\ lines_cleared = 0
        /\ ~ paused
        /\ ~ game_over
        /\ drop_interval = 100
        /\ current_piece # None /\ next_piece # None
        /\ current_piece.type \in Kinds /\ next_piece.type \in Kinds
        /\ current_piece.x = 4 /\ current_piece.y = 0 /\ current_piece.rotation = 0
        /\ next_piece.rotation = 0
        /\ current_piece.id # next_piece.id

\* C4 witness: a restart as the third call of a game, of another theme and at
\* a later time than the construction left.
C4_Witness ==
    /\ call.op = "restart"
    /\ steps = 3
    /\ theme = "amber"
    /\ last_drop_time > 0

\* C5: score and cumulative line count start at 0 or above, and no call other
\* than a restart decreases either.
C5_ScoreAndLinesGrow ==
    /\ score >= 0
    /\ lines_cleared >= 0
    /\ [][~ RestartCall(call') =>
            /\ score' >= score
            /\ lines_cleared' >= lines_cleared
            /\ score' >= 0
            /\ lines_cleared' >= 0]_vars

\* C5 witness: a soft drop key has just added its point to the score of a game
\* that had cleared nine lines.
C5_Witness ==
    /\ call.op = "handle_input"
    /\ call.args = <<"DOWN">>
    /\ lines_cleared = 9
    /\ score = 721

\* C6: level is min(20, lines div 10 + 1), so between 1 and 20, and the drop
\* interval is max(5, 100 - 5 * (level - 1)) hundredths of a second.
C6_LevelAndInterval ==
    /\ level = (IF (lines_cleared \div 10) + 1 < 20 THEN (lines_cleared \div 10) + 1 ELSE 20)
    /\ level >= 1
    /\ level <= 20
    /\ drop_interval = (IF 100 - 5 * (level - 1) > 5 THEN 100 - 5 * (level - 1) ELSE 5)

\* C6 witness: a hard drop has cleared the lines 199 and 200 and the level is
\* held at 20.
C6_Witness ==
    /\ call.op = "hard_drop"
    /\ lines_cleared = 200
    /\ level = 20
    /\ drop_interval = 5

\* The rows the piece falls in a hard drop: the steps down that validate.
DropDistance(g, piece) ==
    CHOOSE d \in 0..Len(g) :
        /\ \A e \in 1..d : IsValidPosition(g, piece, 0, e)
        /\ ~ IsValidPosition(g, piece, 0, d + 1)

\* The number of rows of g without an empty cell.
FullRows(g) ==
    LET rows == g
    IN  Cardinality({j \in 1..Len(rows) : \A i \in 1..Len(rows[j]) : rows[j][i] # Empty})

\* The base score of the claim for n lines.
BaseScore(n) ==
    CASE n = 0 -> 0
      [] n = 1 -> 40
      [] n = 2 -> 100
      [] n = 3 -> 300
      [] n = 4 -> 1200
      [] OTHER -> 0

\* C7: a lock that completes n rows while the level is L adds BaseScore(n) *
\* (L + 1) to the score (after the two points a row of a hard drop) and n to
\* the line count; with n = 0 it leaves score, level, lines and drop interval
\* as they were; a line count outside 0..4 scores 0.
C7_LockScores ==
    /\ \A n \in {-2, -1, 5, 6, 7} : \A l \in 1..20 : CalculateScore(l, n) = 0
    /\ [][LockingCall(call') =>
            \A d \in {IF call'.op = "hard_drop" THEN DropDistance(grid, current_piece) ELSE 0} :
                \A n \in {FullRows(PlacePiece(grid, [current_piece EXCEPT !.y = @ + d]))} :
                    /\ score' = score + 2 * d + BaseScore(n) * (level + 1)
                    /\ lines_cleared' = lines_cleared + n
                    /\ n = 0 => /\ level' = level
                                /\ drop_interval' = drop_interval]_vars

\* C7 witness: a hard drop of 18 rows has cleared the tenth line of a game
\* at level 1: 720 + 36 + 40 * 2 points, and level 2 from now on.
C7_Witness ==
    /\ call.op = "hard_drop"
    /\ lines_cleared = 10
    /\ score = 836
    /\ level = 2

\* Further cases of C7: four lines and three lines cleared at once.
C7_FourLines == call.op = "hard_drop" /\ lines_cleared = 4 /\ score = 2432
C7_ThreeLines == call.op = "hard_drop" /\ lines_cleared = 3 /\ score = 632
C7_TwoLines == call.op = "hard_drop" /\ lines_cleared = 200 /\ score = 112900 + 36 + 100 * 21
C7_NoLine == call.op = "lock_piece" /\ steps = 1 /\ lines_cleared = 9 /\ score = 720

\* A row with an empty cell.
NotFull(row) == \E i \in 1..Len(row) : row[i] = "."

\* C8: clear_lines returns the number k of rows without an empty cell; the
\* grid keeps its height and width, its top k rows are empty, and the rows
\* below are the rows that had an empty cell, in their order.
C8_ClearLines ==
    call.op = "clear_lines" =>
        LET old == call.args[1]
            k == Cardinality({j \in 1..Len(old) : ~ NotFull(old[j])})
        IN  /\ call.ret = k
            /\ Len(grid) = Len(old)
            /\ \A j \in 1..Len(grid) : Len(grid[j]) = Len(old[1])
            /\ \A j \in 1..k : \A i \in 1..Len(grid[j]) : grid[j][i] = "."
            /\ SubSeq(grid, k + 1, Len(grid)) = SelectSeq(old, NotFull)

\* C8 witness: clear_lines removed the full bottom row and the row above it,
\* which holds a block, is now the bottom row under an empty one.
C8_Witness ==
    /\ call.op = "clear_lines"
    /\ call.ret = 1
    /\ ~ NotFull(call.args[1][2])
    /\ grid[2] = call.args[1][1]
    /\ \E i \in 1..Len(grid[2]) : grid[2][i] # "."

\* C9: is_valid_position(piece, dx, dy) is false exactly when some occupied
\* cell of the frame, moved by the position and (dx, dy), has column < 0,
\* column >= W, row >= H, or row >= 0 on an occupied grid cell; the grid is
\* not modified.
C9_IsValidPosition ==
    [][call'.op = "is_valid_position" =>
        LET p == current_piece'
            frame == SHAPES[p.type][(p.rotation % Len(SHAPES[p.type])) + 1]
            dx == call'.args[1]
            dy == call'.args[2]
        IN  /\ grid' = grid
            /\ (call'.ret = FALSE) <=>
                   \E r \in 1..Len(frame) : \E c \in 1..Len(frame[r]) :
                       /\ frame[r][c] # "."
                       /\ \/ p.x + (c - 1) + dx < 0
                          \/ p.x + (c - 1) + dx >= Len(grid[1])
                          \/ p.y + (r - 1) + dy >= Len(grid)
                          \/ /\ p.y + (r - 1) + dy >= 0
                             /\ grid[p.y + (r - 1) + dy + 1][p.x + (c - 1) + dx + 1] # "."]_vars

\* C9 witness: a placement is valid with an occupied cell of the piece above
\* the board (row -1) and the board not empty.
C9_Witness ==
    /\ call.op = "is_valid_position"
    /\ call.ret = TRUE
    /\ \E c \in ShapeCells(current_piece) : current_piece.y + c[2] + call.args[2] < 0
    /\ \E j \in 1..Len(grid) : \E i \in 1..Len(grid[j]) : grid[j][i] # "."

\* C10: move_piece(dx, dy) returns whether the current piece validates at
\* (dx, dy); if so the piece moves by exactly (dx, dy), kind and rotation
\* kept; if not the piece is untouched; grid, score, level, lines and the
\* flags are unchanged either way.
C10_MovePiece ==
    [][call'.op = "move_piece" =>
        \A ok \in {IsValidPosition(grid, current_piece, call'.args[1], call'.args[2])} :
            /\ call'.ret = ok
            /\ current_piece' =
                  IF ok
                  THEN [current_piece EXCEPT !.x = @ + call'.args[1], !.y = @ + call'.args[2]]
                  ELSE current_piece
            /\ UNCHANGED <<grid, score, level, lines_cleared, paused, game_over, theme,
                           next_piece, last_drop_time, drop_interval>>]_vars

\* C10 witness: a move of a game in play has failed.
C10_Witness ==
    /\ call.op = "move_piece"
    /\ call.ret = FALSE
    /\ ~ game_over

\* A further case of C10: a move right has succeeded.
C10_Moved == call.op = "move_piece" /\ call.ret = TRUE /\ current_piece.x = 6

\* The frames of a kind.
Frames(kind) ==
    CASE kind \in {"I", "T", "J", "L"} -> 4
      [] kind \in {"S", "Z"} -> 2
      [] kind = "O" -> 1

\* Kind, rotation index and position of a piece (not its identity).
Placement(piece) == <<piece.type, piece.rotation, piece.x, piece.y>>

\* C11: rotate_piece returns true exactly when the candidate (same kind and
\* position, rotation index plus one modulo the frame count) validates where
\* it is; then the current piece is that candidate; otherwise kind, rotation
\* index and position of the current piece are as before (it is the same
\* object); the grid and every other field are unchanged either way.
C11_RotatePiece ==
    [][call'.op = "rotate_piece" =>
        \A cand \in {[current_piece EXCEPT
                         !.rotation = (@ + 1) % Frames(current_piece.type)]} :
            \A ok \in {IsValidPosition(grid, cand, 0, 0)} :
                /\ call'.ret = ok
                /\ ok => Placement(current_piece') = Placement(cand)
                /\ ~ ok => current_piece' = current_piece
                /\ UNCHANGED <<grid, score, level, lines_cleared, paused, game_over, theme,
                               next_piece, last_drop_time, drop_interval>>]_vars

\* C11 witness: the rotation of a T lying on the floor has failed in a game in
\* play, the frame it would take reaching below the last row.
C11_Witness ==
    /\ call.op = "rotate_piece"
    /\ call.ret = FALSE
    /\ ~ game_over
    /\ current_piece.type = "T"
    /\ current_piece.y = 18

\* A further case of C11: a rotation has succeeded.
C11_Rotated == call.op = "rotate_piece" /\ call.ret = TRUE /\ current_piece.rotation = 1

\* C12: N rotate calls in a row, N the frame count of the kind (4 for I, T, J
\* and L, 2 for S and Z, 1 for O), from any rotation index, give a piece of
\* the kind, rotation index and position of the first one; each call returns
\* another instance and leaves the piece it was called on as it was.
C12_RotateCycle ==
    /\ []((call.op = "rotate" /\ call.args[2] = Frames(call.args[1].type)) =>
              Placement(next_piece) = Placement(call.args[1]))
    /\ [][call'.op = "rotate" =>
            /\ current_piece' = next_piece
            /\ next_piece'.id # next_piece.id
            /\ next_piece'.type = next_piece.type
            /\ next_piece'.x = next_piece.x
            /\ next_piece'.y = next_piece.y]_vars

\* C12 witness: the second rotate on a Z that started at rotation index 1 has
\* returned a piece at index 1 again.
C12_Witness ==
    /\ call.op = "rotate"
    /\ call.args[2] = 2
    /\ call.args[1].type = "Z"
    /\ call.args[1].rotation = 1
    /\ next_piece.rotation = 1

\* Further cases of C12: the fourth rotate on an L from index 3, the first on an O.
C12_FourFrames ==
    /\ call.op = "rotate" /\ call.args[2] = 4
    /\ call.args[1].type = "L" /\ call.args[1].rotation = 3 /\ next_piece.rotation = 3
C12_OneFrame ==
    /\ call.op = "rotate" /\ call.args[2] = 1
    /\ call.args[1].type = "O" /\ next_piece.rotation = 0

\* The fields of the game other than the theme.
GameFields ==
    <<grid, current_piece, next_piece, score, level, lines_cleared, paused, game_over,
      last_drop_time, drop_interval>>

\* C13: an update made while paused or game_over is true changes no field of
\* the game, whether or not the drop interval has elapsed.
C13_TickWhileStopped ==
    [][(call'.op = "update" /\ (paused \/ game_over)) =>
        UNCHANGED <<GameFields, theme>>]_vars

\* C13 witness: an update has run on a paused game in play a full drop
\* interval after the last drop.
C13_Witness ==
    /\ call.op = "update"
    /\ paused
    /\ ~ game_over
    /\ call.args[1] - last_drop_time >= drop_interval

\* A further case of C13: an update run on a game that is over, the interval elapsed.
C13_Over ==
    /\ call.op = "update"
    /\ game_over
    /\ ~ paused
    /\ call.args[1] - last_drop_time >= drop_interval

\* C14: an update of a game neither paused nor over, made when the time since
\* the last drop has reached the drop interval, moves the current piece down
\* one row when it validates there and otherwise locks it in that same call
\* (the piece is committed where it is, the lines are counted, the next piece
\* becomes current), and sets the last-drop timestamp to the time read either
\* way; made earlier, it changes nothing.
C14_TickInPlay ==
    [][(call'.op = "update" /\ ~ paused /\ ~ game_over) =>
        \A t \in {call'.args[1]} :
            IF t - last_drop_time >= drop_interval
            THEN /\ last_drop_time' = t
                 /\ IF IsValidPosition(grid, current_piece, 0, 1)
                    THEN /\ current_piece' = [current_piece EXCEPT !.y = @ + 1]
                         /\ UNCHANGED <<grid, next_piece, score, level, lines_cleared,
                                        paused, game_over, theme, drop_interval>>
                    ELSE \A placed \in {PlacePiece(grid, current_piece)} :
                            \A n \in {FullRows(placed)} :
                                /\ lines_cleared' = lines_cleared + n
                                /\ score' = score + BaseScore(n) * (level + 1)
                                /\ n = 0 => grid' = placed
                                /\ current_piece' =
                                       [next_piece EXCEPT !.x = 4, !.y = 0]
                                /\ next_piece'.id # current_piece'.id
                                /\ UNCHANGED <<paused, theme>>
            ELSE UNCHANGED <<GameFields, theme>>]_vars

\* C14 witness: the update made one interval after the last drop has locked
\* the T that lay on the floor, and the game goes on with the next piece.
C14_Witness ==
    /\ call.op = "update"
    /\ steps = 1
    /\ ~ game_over
    /\ last_drop_time = 100
    /\ grid[20][5] = "T"
    /\ current_piece.type = "L"

\* Further cases of C14: a piece lowered one row, and an update made too early.
C14_Lowered ==
    /\ call.op = "update" /\ steps = 1 /\ ~ game_over
    /\ last_drop_time = 100 /\ current_piece.y = 1 /\ grid = NewBoard
C14_TooEarly ==
    /\ call.op = "update" /\ steps = 1 /\ ~ game_over /\ ~ paused
    /\ call.args[1] = 50 /\ last_drop_time = 0 /\ drop_interval = 100

\* The grid g with the occupied cells of the frame of piece written into it.
Committed(g, piece) ==
    LET frame == SHAPES[piece.type][piece.rotation + 1]
    IN  [j \in 1..Len(g) |->
            IF j - piece.y \in 1..Len(frame)
            THEN [i \in 1..Len(g[j]) |->
                    IF /\ i - piece.x \in 1..Len(frame[j - piece.y])
                       /\ frame[j - piece.y][i - piece.x] # "."
                    THEN piece.type
                    ELSE g[j][i]]
            ELSE g[j]]

\* The call c is a hard drop: game.hard_drop(), or the space key.
HardDropCall(c) ==
    \/ c.op = "hard_drop"
    \/ (c.op = "handle_input" /\ c.args = <<"SPACE">>)

\* C15: a hard drop of a game neither paused nor over takes the current piece
\* down the d rows it can fall (every step 1..d validates, step d + 1 does
\* not), adds 2 * d to the score before the score of the lines, writes the
\* piece into the grid d rows lower in the same column and frame, removes the
\* full rows, and makes the next piece current at the spawn point.
C15_HardDrop ==
    [][(HardDropCall(call') /\ ~ paused /\ ~ game_over) =>
        \A d \in {DropDistance(grid, current_piece)} :
            \A placed \in {Committed(grid, [current_piece EXCEPT !.y = @ + d])} :
                \A n \in {FullRows(placed)} :
                    /\ score' = score + 2 * d + BaseScore(n) * (level + 1)
                    /\ lines_cleared' = lines_cleared + n
                    /\ Len(grid') = 20
                    /\ \A j \in 1..n : \A i \in 1..10 : grid'[j][i] = "."
                    /\ SubSeq(grid', n + 1, 20) = SelectSeq(placed, NotFull)
                    /\ current_piece' = [next_piece EXCEPT !.x = 4, !.y = 0]
                    /\ next_piece'.id # current_piece'.id
                    /\ UNCHANGED <<paused, theme, last_drop_time>>]_vars

\* C15 witness: an upright I has fallen 16 rows into the well and cleared
\* three lines; its top cell is left in the bottom row with what was row 16.
C15_Witness ==
    /\ call.op = "hard_drop"
    /\ score = 632
    /\ lines_cleared = 3
    /\ grid[20] = [i \in 1..10 |-> IF i <= 4 THEN "." ELSE "I"]
    /\ grid[19] = [i \in 1..10 |-> "."]

\* A further case of C15: the space key has dropped a piece 18 rows onto the floor.
C15_SpaceKey ==
    /\ call.op = "handle_input" /\ call.args = <<"SPACE">>
    /\ steps = 1 /\ score = 36 /\ lines_cleared = 0

\* The call c toggles the pause: game.toggle_pause(), or the pause key.
PauseCall(c) ==
    \/ c.op = "toggle_pause"
    \/ (c.op = "handle_input" /\ c.args = <<"p">>)

\* The call c toggles the theme: game.toggle_theme(), or the theme key.
ThemeCall(c) ==
    \/ c.op = "toggle_theme"
    \/ (c.op = "handle_input" /\ c.args = <<"t">>)

\* The game with paused negated, and with the other of the two themes.
PauseFlipped(g) == [g EXCEPT !.paused = (@ = FALSE)]
ThemeFlipped(g) == [g EXCEPT !.theme = CHOOSE th \in {"green", "amber"} : th # @]

\* C16: toggle_pause negates paused and toggle_theme changes the theme to the
\* other one, in any state (in play, paused, over); each leaves every other
\* field as it was, and the same toggle applied twice gives back the state
\* it started from.
C16_Toggles ==
    /\ [][PauseCall(call') =>
            /\ paused' = ~ paused
            /\ UNCHANGED <<grid, current_piece, next_piece, score, level, lines_cleared,
                           game_over, theme, last_drop_time, drop_interval>>]_vars
    /\ [][ThemeCall(call') =>
            /\ theme' \in {"green", "amber"} \ {theme}
            /\ UNCHANGED <<grid, current_piece, next_piece, score, level, lines_cleared,
                           paused, game_over, last_drop_time, drop_interval>>]_vars
    /\ [](/\ TogglePause(Game) = PauseFlipped(Game)
          /\ TogglePause(TogglePause(Game)) = Game
          /\ ToggleTheme(Game) = ThemeFlipped(Game)
          /\ ToggleTheme(ToggleTheme(Game)) = Game)

\* C16 witness: the theme has been toggled twice on a game that is over, and
\* is green as it was.
C16_Witness ==
    /\ call.op = "toggle_theme"
    /\ steps = 3
    /\ game_over
    /\ theme = "green"

\* A further case of C16: a game that is over has been paused.
C16_PausedOver == call.op = "toggle_pause" /\ game_over /\ paused

\* The (column, row) pairs of the board the frame of piece covers.
Covered(piece) ==
    LET frame == SHAPES[piece.type][piece.rotation + 1]
    IN  {<<piece.x + c - 1, piece.y + r - 1>> :
            <<r, c>> \in {rc \in (1..Len(frame)) \X (1..Len(frame[1])) :
                             frame[rc[1]][rc[2]] # "."}}

\* C17: when the current piece is an O and the game is not over, rotate_piece
\* returns true and the current piece covers the same board cells after the
\* call as before it.
C17_RotateO ==
    [][(current_piece.type = "O" /\ ~ game_over) =>
        /\ call'.op = "rotate_piece" =>
                /\ call'.ret = TRUE
                /\ Covered(current_piece') = Covered(current_piece)
                /\ current_piece'.type = "O"
        /\ (call'.op = "handle_input" /\ call'.args = <<"UP">>) =>
                /\ Covered(current_piece') = Covered(current_piece)
                /\ current_piece'.type = "O"]_vars

\* C17 witness: an O moved away from the spawn column has been rotated in a
\* game in play: another object, on the same four cells.
C17_Witness ==
    /\ call.op = "rotate_piece"
    /\ call.ret = TRUE
    /\ ~ game_over
    /\ current_piece.type = "O"
    /\ current_piece.id = 3
    /\ Covered(current_piece) = {<<5, 0>>, <<6, 0>>, <<5, 1>>, <<6, 1>>}

\* The update about to be made at time t locks the current piece: the game is
\* neither paused nor over, the interval has elapsed, the piece cannot go down.
TickLocks(t) ==
    /\ ~ paused
    /\ ~ game_over
    /\ t - last_drop_time >= drop_interval
    /\ ~ IsValidPosition(grid, current_piece, 0, 1)

\* C18: every lock (lock_piece, hard_drop, or the update that cannot lower the
\* piece), in play or not, ends with a spawn: the piece that was next is the
\* current piece, the same object, at column 4, row 0 with rotation index 0,
\* and there is a next piece that is another object, whether or not the game
\* is over afterwards.
C18_LockSpawns ==
    [][(current_piece # None /\
        (LockingCall(call') \/ (call'.op = "update" /\ TickLocks(call'.args[1])))) =>
            /\ current_piece' # None
            /\ current_piece'.type = next_piece.type
            /\ current_piece'.id = next_piece.id
            /\ current_piece'.x = 4
            /\ current_piece'.y = 0
            /\ current_piece'.rotation = 0
            /\ next_piece' # None
            /\ next_piece'.type \in Kinds
            /\ next_piece'.id # current_piece'.id]_vars

\* C18 witness: a lock made on a game already over has written the S over the
\* top of the tower of O pieces and spawned the piece that was next, and
\* another piece is next.
C18_Witness ==
    /\ call.op = "lock_piece"
    /\ steps = 2
    /\ game_over
    /\ current_piece.type \in Draws
    /\ current_piece.x = 4 /\ current_piece.y = 0
    /\ next_piece.id # current_piece.id
    /\ grid[1][6] = "S"
    /\ grid[3][6] = "O"

\* Further cases of C18: the update that locked a piece and ended the game, and
\* a hard drop after which the game goes on.
C18_TickEnds ==
    /\ call.op = "update" /\ steps = 1 /\ game_over /\ current_piece.type = "S"
C18_GoesOn ==
    /\ call.op = "hard_drop" /\ steps = 1 /\ ~ game_over /\ current_piece.type = "T"

\* Every cell the frame of piece covers is a cell of the 10 x 20 board, and
\* empty in g.
ValidlyPlaced(g, piece) ==
    \A xy \in Covered(piece) :
        /\ xy[1] >= 0 /\ xy[1] < 10
        /\ xy[2] >= 0 /\ xy[2] < 20
        /\ g[xy[2] + 1][xy[1] + 1] = "."

\* The number of occupied cells of g.
Occupied(g) ==
    LET rows == g
    IN  Cardinality({ji \in (1..Len(rows)) \X (1..Len(rows[1])) :
                        rows[ji[1]][ji[2]] # "."})

\* C19: while game_over is false there is a current piece and every cell of
\* its frame lies in columns 0..9 and rows 0..19 on an empty cell of the grid;
\* a lock made in such a state (lock_piece, hard_drop after the fall, or the
\* update that cannot lower the piece) writes four cells, all of them empty
\* before: the grid gains four occupied cells and loses ten for each full row
\* removed, and with no full row it differs from the old grid in exactly the
\* cells of the piece.
C19_ValidlyPlaced ==
    /\ [](~ game_over => (current_piece # None /\ ValidlyPlaced(grid, current_piece)))
    /\ [][(~ game_over /\
            (LockingCall(call') \/ (call'.op = "update" /\ TickLocks(call'.args[1])))) =>
            \A d \in {IF call'.op = "hard_drop" THEN DropDistance(grid, current_piece) ELSE 0} :
                \A target \in {Covered([current_piece EXCEPT !.y = @ + d])} :
                    /\ Cardinality(target) = 4
                    /\ \A xy \in target :
                           /\ xy[1] \in 0..9 /\ xy[2] \in 0..19
                           /\ grid[xy[2] + 1][xy[1] + 1] = "."
                    /\ Occupied(grid') = Occupied(grid) + 4
                                            - 10 * (lines_cleared' - lines_cleared)
                    /\ lines_cleared' = lines_cleared =>
                           {xy \in (0..9) \X (0..19) :
                               grid'[xy[2] + 1][xy[1] + 1] # grid[xy[2] + 1][xy[1] + 1]}
                           = target]_vars

\* C19 witness: lock_piece has committed the T lying on the floor of an empty
\* board: four occupied cells, and the game goes on.
C19_Witness ==
    /\ call.op = "lock_piece"
    /\ steps = 1
    /\ ~ game_over
    /\ Occupied(grid) = 4
    /\ grid[19][6] = "T"
    /\ grid[20][5] = "T" /\ grid[20][6] = "T" /\ grid[20][7] = "T"

\* Further cases of C19: the piece of a game in play moved against the right
\* wall, and a game over with the current piece on occupied cells.
C19_AtWall ==
    /\ ~ game_over /\ call.op = "move_piece" /\ call.ret = FALSE
    /\ \E xy \in Covered(current_piece) : xy[1] = 9
C19_Over == game_over /\ ~ ValidlyPlaced(grid, current_piece)

\* C20: with the game driven through handle_input and update only, while
\* paused or game_over is true the left, right, down, up and space keys and
\* every update leave grid, current piece, next piece, score, level and lines
\* as they were (and every other field too); of the keys, only pause,
\* restart and theme change a field of the game, and only quit makes
\* handle_input return false.
C20_InputFrame ==
    [][(paused \/ game_over) =>
        /\ (\/ call'.op = "update"
            \/ /\ call'.op = "handle_input"
               /\ call'.args[1] \in {"LEFT", "RIGHT", "DOWN", "UP", "SPACE"}) =>
                UNCHANGED <<grid, current_piece, next_piece, score, level, lines_cleared>>
        /\ (\/ call'.op = "update"
            \/ /\ call'.op = "handle_input"
               /\ call'.args[1] \notin {"p", "r", "t"}) =>
                UNCHANGED <<GameFields, theme>>
        /\ call'.op = "handle_input" => (call'.ret = FALSE <=> call'.args[1] = "q")]_vars

\* C20 witness: the space key has been pressed twice on the O at the top of
\* the tower: the first ended the game, the second left the S that spawned
\* where it is and the top row as the O left it.
C20_Witness ==
    /\ call.op = "handle_input"
    /\ call.args = <<"SPACE">>
    /\ steps = 2
    /\ game_over
    /\ ~ paused
    /\ current_piece.type = "S"
    /\ grid[1] = [i \in 1..10 |-> IF i \in {5, 6} THEN "O" ELSE "."]

\* Further cases of C20: the down key on a paused game in play, and the restart
\* key as the second call.
C20_PausedDown ==
    /\ call.op = "handle_input" /\ call.args = <<"DOWN">>
    /\ paused /\ ~ game_over /\ score = 0 /\ steps = 2
C20_RestartKey ==
    /\ call.op = "handle_input" /\ call.args = <<"r">>
    /\ ~ game_over /\ steps = 2 /\ last_drop_time > 0

\* C21: a game in play left to the updates made once the drop interval has
\* elapsed (no key, never paused) is over after finitely many of them,
\* whatever kinds are drawn; every such update either lowers the current
\* piece one row, the grid untouched, or locks it: the next piece becomes
\* current, another piece is next, and the grid gains the four cells of the
\* piece less ten for each line removed.
C21_GravityEnds ==
    /\ <>game_over
    /\ [][call'.op = "update" =>
            \/ /\ current_piece' = [current_piece EXCEPT !.y = @ + 1]
               /\ IsValidPosition(grid, current_piece, 0, 1)
               /\ UNCHANGED <<grid, next_piece, score, lines_cleared, game_over>>
            \/ /\ ~ IsValidPosition(grid, current_piece, 0, 1)
               /\ current_piece'.id = next_piece.id
               /\ next_piece'.id # next_piece.id
               /\ Occupied(grid') = Occupied(grid) + 4
                                       - 10 * (lines_cleared' - lines_cleared)]_vars

\* C21 witness: the game that started below the brim is over after seven or
\* more updates, the flat I having completed row 3 on the way.
C21_Witness ==
    /\ game_over
    /\ call.op = "update"
    /\ lines_cleared = 1
    /\ score = 80
    /\ steps >= 7
    /\ ~ paused

\* C22: after every call (construction, move, rotate, hard drop, lock, update,
\* toggles, restart, keys) the grid has 20 rows of 10 cells and every row has
\* an empty cell: a row the lock completes is removed before lock_piece
\* returns.
C22_NoFullRow ==
    /\ Len(grid) = 20
    /\ \A j \in 1..20 :
           /\ Len(grid[j]) = 10
           /\ \E i \in 1..10 : grid[j][i] = "."

\* C22 witness: the upright I dropped into the well completed rows 16..19, and
\* the board is empty after the hard drop.
C22_Witness ==
    /\ call.op = "hard_drop"
    /\ steps = 2
    /\ lines_cleared = 4
    /\ \A j \in 1..20 : \A i \in 1..10 : grid[j][i] = "."

\* A further case of C22: a lock on a game that is over, which writes over
\* occupied cells, has completed no row.
C22_Over ==
    /\ call.op = "lock_piece" /\ steps = 2 /\ game_over
    /\ grid[1][6] = "S" /\ grid[3][6] = "O" /\ lines_cleared = 0

====
